---- MODULE Spec2Model ----
(***************************************************************************)
(* Model of utils/ld-preload-flash-harness/path-mapping.c: an LD_PRELOAD   *)
(* library that hooks fopen64, fwrite and (with HOOK_TRUNCATE) truncate.   *)
(* A path ending in PATH_ENDING is opened as /dev/null, the FILE* is kept  *)
(* in fake_log, and fwrite to a stream with fake_log's descriptor is       *)
(* printed on stdout instead of being written.                             *)
(***************************************************************************)
EXTENDS Integers, Sequences, FiniteSets, TLC

VARIABLES
    files,      \* the heap of FILE objects: address -> FILE (or a free chunk)
    fake_log,   \* FILE* fake_log (line 131): NULL or an address
    stdout,     \* the bytes that reached descriptor 1 through stdout, in order
    unflushed,  \* the bytes in stdout's buffer that have not reached it yet
    disk,       \* the file system: path -> [exists, version]
    glibc,      \* the resolved genuine functions (lines 93-97)
    call,       \* the last call of a hooked function: arguments, result and
                \* the genuine calls it made
    threads     \* for each thread of the host, the hooked call it is in: the
                \* line it has reached and its arguments and locals

vars == <<files, fake_log, stdout, unflushed, disk, glibc, call, threads>>

----------------------------------------------------------------------------
(* Bounds of the model *)

\* number of FILE objects (and descriptors) that can be open at once
MaxFiles == 2
\* most bytes of a payload that the model spells out one by one
MaxPayload == 2
\* how many bytes stdout may hold before the model stops redirecting
MaxStdout == 2
\* how many times the model lets one file on disk be modified
MaxVersion == 1
\* longest string the path matcher is tried on
MaxLen == 3
\* how many hooked calls one thread makes in the specification with threads
MaxCalls == 2

----------------------------------------------------------------------------
(* 64-bit machine words (size_t, __off_t on LP64) as 8 bytes, least        *)
(* significant first; int is the low 4 bytes.                              *)

Word64 == [1..8 -> 0..255]

\* the word of a small natural 0 <= n < 2^31
W(n) == [i \in 1..8 |-> IF i = 1 THEN n % 256
                        ELSE IF i = 2 THEN (n \div 256) % 256
                        ELSE IF i = 3 THEN (n \div 65536) % 256
                        ELSE IF i = 4 THEN (n \div 16777216) % 256
                        ELSE 0]

\* the natural number of a word below 2^31
N(w) == w[1] + 256 * w[2] + 65536 * w[3] + 16777216 * w[4]

RECURSIVE ColSum(_, _, _, _)
ColSum(a, b, k, i) ==
    IF i > k THEN 0 ELSE a[i] * b[k + 1 - i] + ColSum(a, b, k, i + 1)

RECURSIVE WMulFrom(_, _, _, _)
WMulFrom(a, b, k, carry) ==
    IF k > 8 THEN <<>>
    ELSE LET s == ColSum(a, b, k, 1) + carry
         IN  <<s % 256>> \o WMulFrom(a, b, k + 1, s \div 256)

\* size_t multiplication: the product modulo 2^64
WMul(a, b) == WMulFrom(a, b, 1, 0)

RECURSIVE WLessFrom(_, _, _)
WLessFrom(a, b, i) ==
    IF i = 0 THEN FALSE
    ELSE IF a[i] # b[i] THEN a[i] < b[i]
    ELSE WLessFrom(a, b, i - 1)

\* unsigned a <= b
WLeq(a, b) == a = b \/ WLessFrom(a, b, 8)

\* 0, 1, 2^31, 2^32 and 2^32 + 1
WZero == <<0, 0, 0, 0, 0, 0, 0, 0>>
WOne == <<1, 0, 0, 0, 0, 0, 0, 0>>
TwoTo31 == <<0, 0, 0, 128, 0, 0, 0, 0>>
TwoTo32 == <<0, 0, 0, 0, 1, 0, 0, 0>>
TwoTo32Plus1 == <<1, 0, 0, 0, 1, 0, 0, 0>>
\* -1 as a 64-bit two's complement word
MinusOne == <<255, 255, 255, 255, 255, 255, 255, 255>>

\* (size_t)(int)w: the low 32 bits, sign-extended to 64
SignExtend32(w) ==
    [i \in 1..8 |-> IF i <= 4 THEN w[i] ELSE IF w[4] >= 128 THEN 255 ELSE 0]

\* the low 32 bits, zero-extended to 64
ZeroExtend32(w) == [i \in 1..8 |-> IF i <= 4 THEN w[i] ELSE 0]

----------------------------------------------------------------------------
(* Strings: a C string is the sequence of its characters before the NUL;   *)
(* the null pointer is a value of its own.                                 *)

NULL_STR == <<"NULL">>

PATH_ENDING ==
    <<".", "m", "a", "c", "r", "o", "m", "e", "d", "i", "a", "/", "F", "l",
      "a", "s", "h", "_", "P", "l", "a", "y", "e", "r", "/", "L", "o", "g",
      "s", "/", "f", "l", "a", "s", "h", "l", "o", "g", ".", "t", "x", "t">>

DevNull == <<"/", "d", "e", "v", "/", "n", "u", "l", "l">>

strlen(s) == Len(s)

\* strncmp(s1 + off, s2, n): 0 when the first n characters of the two
\* strings (or all of both, when they end earlier) are equal, nonzero
\* otherwise (its sign is never used).  i counts the characters compared.
RECURSIVE strncmp_from(_, _, _, _, _)
strncmp_from(s1, off, s2, n, i) ==
    IF i = n THEN 0
    ELSE IF off + i >= Len(s1) /\ i >= Len(s2) THEN 0
    ELSE IF off + i >= Len(s1) \/ i >= Len(s2) THEN 1
    ELSE IF s1[off + i + 1] # s2[i + 1] THEN 1
    ELSE strncmp_from(s1, off, s2, n, i + 1)

strncmp(s1, off, s2, n) == strncmp_from(s1, off, s2, n, 0)

\* a matcher that compares the start of haystack instead of its end
endswith_start(haystack, needle) ==
    IF haystack = NULL_STR \/ needle = NULL_STR THEN -1
    ELSE LET haystack_len == strlen(haystack)
             needle_len == strlen(needle)
         IN  IF needle_len > haystack_len THEN 0
             ELSE IF strncmp(haystack, 0, needle, needle_len) = 0 THEN 1 ELSE 0

\* a matcher without the length test: a longer needle is compared against
\* the whole haystack
endswith_nolen(haystack, needle) ==
    IF haystack = NULL_STR \/ needle = NULL_STR THEN -1
    ELSE LET haystack_len == strlen(haystack)
             needle_len == strlen(needle)
             from == IF needle_len > haystack_len THEN 0
                     ELSE haystack_len - needle_len
             n == IF needle_len > haystack_len THEN haystack_len
                  ELSE needle_len
         IN  IF strncmp(haystack, from, needle, n) = 0 THEN 1 ELSE 0

endswith(haystack, needle) ==
    IF haystack = NULL_STR \/ needle = NULL_STR THEN -1
    ELSE LET haystack_len == strlen(haystack)
             needle_len == strlen(needle)
         IN  IF needle_len > haystack_len THEN 0
             ELSE IF strncmp(haystack, haystack_len - needle_len,
                             needle, needle_len) = 0
                  THEN 1 ELSE 0

----------------------------------------------------------------------------
(* The state after the library is loaded *)

NULL == 0
Addr == 1..MaxFiles
FileNos == 3..(MaxFiles + 2)

\* the paths the host application asks for
LogPath == <<"a", "p", "p">> \o PATH_ENDING
OtherPath == <<"/", "t", "m", "p", "/", "o", "t", "h", "e", "r", ".", "t", "x", "t">>
HostPaths == {LogPath, PATH_ENDING, OtherPath, NULL_STR}
DiskPaths == {LogPath, PATH_ENDING, OtherPath}
Modes == {"r", "w"}

\* a chunk of the heap that holds no FILE
FreeChunk == [open |-> FALSE, fileno |-> -1, path |-> NULL_STR]

\* the constructor: the genuine functions found with dlsym(RTLD_NEXT, ...)
init_preload(hook_truncate) ==
    IF hook_truncate
    THEN [fopen64 |-> "fopen64", fwrite |-> "fwrite", truncate |-> "truncate"]
    ELSE [fopen64 |-> "fopen64", fwrite |-> "fwrite"]

\* the threads of the host, and a thread that is in no hooked call
Threads == {"t1", "t2"}
Idle == [pc |-> "idle"]

InitWith(hook_truncate) ==
    /\ files = [a \in Addr |-> FreeChunk]
    /\ fake_log = NULL
    /\ stdout = <<>>
    /\ unflushed = <<>>
    /\ threads = [t \in Threads |-> Idle]
    /\ disk = [p \in DiskPaths |->
                  [exists |-> p \in {LogPath, OtherPath}, version |-> 0]]
    /\ glibc = init_preload(hook_truncate)
    /\ call = [op |-> "none"]

\* the build as shipped: HOOK_TRUNCATE is not defined (line 21)
Init == InitWith(FALSE)

----------------------------------------------------------------------------
(* The genuine functions, as far as the hooks depend on them.  Each is the *)
(* set of outcomes a call can have: its result and the state it leaves.    *)

OpenAddrs == {a \in Addr : files[a].open}
FreeAddrs == {a \in Addr : ~files[a].open}

\* open(2) returns the lowest descriptor that is not in use
LowestFreeFd ==
    CHOOSE d \in FileNos :
        /\ \A a \in OpenAddrs : files[a].fileno # d
        /\ \A e \in FileNos : e < d => \E a \in OpenAddrs : files[a].fileno = e

\* a modification of the file at path: it exists afterwards
Touch(path) ==
    [disk EXCEPT ![path] = [exists |-> TRUE, version |-> @.version + 1]]

CanTouch(path) == disk[path].version < MaxVersion

\* the genuine fopen64(path, flags): failure, or a new FILE in a free chunk
glibc_fopen64(path, flags) ==
    {[ret |-> NULL, files |-> files, disk |-> disk]}
    \cup
    {[ret |-> a,
      files |-> [files EXCEPT ![a] =
                    [open |-> TRUE, fileno |-> LowestFreeFd, path |-> path]],
      disk |-> IF path # DevNull /\ flags = "w" THEN Touch(path) ELSE disk] :
        a \in {x \in FreeAddrs :
                 /\ path # NULL_STR
                 /\ path # DevNull =>
                        IF flags = "w" THEN CanTouch(path)
                        ELSE disk[path].exists}}

\* the genuine fclose(stream): the FILE is freed, its descriptor closed
glibc_fclose(stream) == [files EXCEPT ![stream] = FreeChunk]

----------------------------------------------------------------------------
(* fopen64 (lines 133-144) *)

\* line 137: a variant that intercepts unless the matcher says no-match
Intercepts_nonzero(pathname) == endswith(pathname, PATH_ENDING) # 0

\* line 137
Intercepts(pathname) == endswith(pathname, PATH_ENDING) = 1

\* line 138: a variant that opens the requested path itself
SinkPath_requested(pathname) == pathname

\* line 138: the path opened in place of pathname
SinkPath(pathname) == DevNull

\* line 138: a variant that keeps the old handle when the open fails
Assigned_unless_null(old, ret) == IF ret = NULL THEN old ELSE ret

\* line 138: fake_log = ...: the value fake_log holds after the assignment,
\* whatever the genuine open returned
Assigned(old, ret) == ret

fopen64(pathname, flags) ==
    IF Intercepts(pathname)
    THEN \E o \in glibc_fopen64(SinkPath(pathname), flags) :
            /\ fake_log' = Assigned(fake_log, o.ret)
            /\ files' = o.files
            /\ disk' = o.disk
            /\ call' = [op |-> "fopen64", pathname |-> pathname,
                        flags |-> flags, ret |-> o.ret,
                        genuine |-> <<[fn |-> glibc.fopen64,
                                       path |-> SinkPath(pathname),
                                       flags |-> flags, ret |-> o.ret]>>]
            /\ UNCHANGED <<stdout, unflushed, glibc, threads>>
    ELSE \E o \in glibc_fopen64(pathname, flags) :
            /\ files' = o.files
            /\ disk' = o.disk
            /\ call' = [op |-> "fopen64", pathname |-> pathname,
                        flags |-> flags, ret |-> o.ret,
                        genuine |-> <<[fn |-> glibc.fopen64,
                                       path |-> pathname,
                                       flags |-> flags, ret |-> o.ret]>>]
            /\ UNCHANGED <<fake_log, stdout, unflushed, glibc, threads>>

call_fopen64 == \E pathname \in HostPaths, flags \in Modes : fopen64(pathname, flags)

\* fclose is not hooked: the host closes a stream and fake_log keeps its value
call_fclose ==
    \E stream \in OpenAddrs :
        /\ files' = glibc_fclose(stream)
        /\ call' = [op |-> "fclose", stream |-> stream]
        /\ UNCHANGED <<fake_log, stdout, unflushed, disk, glibc, threads>>

----------------------------------------------------------------------------
(* fwrite (lines 159-170) *)

Bytes == {0, 1}

\* An fwrite of the host: ptr points at the bytes head; when sparse, zero
\* bytes follow up to size * nmemb bytes in all (a payload too long to spell
\* out); then comes tail, whatever follows the payload in memory up to the
\* next zero byte.
\* (The tail is spelled out where it can be read: after a head that holds
\* no zero byte.)
Tails(h) == IF \E i \in 1..Len(h) : h[i] = 0 THEN {<<0>>} ELSE {<<0>>, <<1, 0>>}
SmallWrites ==
    UNION {{[head |-> h, sparse |-> FALSE, tail |-> t,
             size |-> W(sz), nmemb |-> W(n)] :
              t \in Tails(h), sz \in 0..MaxPayload, n \in 0..MaxPayload} :
           h \in UNION {[1..k -> Bytes] : k \in 0..MaxPayload}}
LargeWrites ==
    {[head |-> <<1>>, sparse |-> TRUE, tail |-> <<0>>, size |-> WOne, nmemb |-> n] :
        n \in {TwoTo32Plus1}}
WriteArgs ==
    {w \in SmallWrites : N(w.size) * N(w.nmemb) = Len(w.head)} \cup LargeWrites

\* what ptr points at
Buf(w) == [head |-> w.head, sparse |-> w.sparse, tail |-> w.tail]

\* the bytes from ptr on, as far as a reader that stops at a zero byte sees
Memory(w) == IF w.sparse THEN w.head \o <<0>> ELSE w.head \o w.tail

\* the bytes of s before its first zero byte
RECURSIVE UpToNul(_)
UpToNul(s) ==
    IF s = <<>> \/ Head(s) = 0 THEN <<>> ELSE <<Head(s)>> \o UpToNul(Tail(s))

\* line 164: fprintf(stdout, "%s", ptr) prints the C string at ptr
Printed(w) == UpToNul(Memory(w))

\* line 162: a variant that does not compare the descriptors
IsSinkWrite_anyfile(fl, stream, stream_fileno, fake_fileno) == fl # NULL

\* line 162: a variant that compares the FILE pointers
IsSinkWrite_pointer(fl, stream, stream_fileno, fake_fileno) ==
    fl # NULL /\ stream = fl

\* line 162: fake_log != 0 && stream->_fileno == fake_log->_fileno
IsSinkWrite(fl, stream, stream_fileno, fake_fileno) ==
    fl # NULL /\ stream_fileno = fake_fileno

\* line 164: fprintf(stdout, ...) appends the string to stdout's buffer
\* (stdout is taken to be a stream that works: no call on it fails)
fprintf(buffer, w) == buffer \o Printed(w)

\* line 165: a variant that leaves the buffer as it is
fflush_skipped(out, buffer) == [stdout |-> out, unflushed |-> buffer]

\* line 165: fflush(stdout) writes the buffer to the descriptor and empties it
fflush(out, buffer) == [stdout |-> out \o buffer, unflushed |-> <<>>]

\* what reading fake_log->_fileno can give: the descriptor of the FILE at
\* that address, or, when the FILE was closed and its chunk not reused, any
\* value (the read of freed memory is undefined)
FakeFilenos ==
    IF fake_log = NULL THEN {-1}
    ELSE IF files[fake_log].open THEN {files[fake_log].fileno}
    ELSE {-1} \cup FileNos

\* line 166: a variant that returns the element count, as the genuine does
SinkReturn_nmemb(size, nmemb) == nmemb

\* line 166: return size * nmemb
SinkReturn(size, nmemb) == WMul(size, nmemb)

\* lines 30 and 169: the delegate is typed as returning int, so the caller
\* takes the low 32 bits of the genuine result and converts them to size_t
PassReturn(r) == SignExtend32(r)

\* the element counts the genuine fwrite can return
Counts == {W(k) : k \in 0..MaxPayload} \cup {TwoTo31, TwoTo32Plus1}

\* the genuine fwrite(ptr, size, nmemb, stream): it returns the number of
\* elements written, which is short on an error, and the file grows
glibc_fwrite(w, stream) ==
    LET f == files[stream]
        changes(r) == f.path # DevNull /\ r # WZero /\ w.size # WZero
    IN  {[ret |-> r, disk |-> IF changes(r) THEN Touch(f.path) ELSE disk] :
            r \in {c \in Counts :
                     /\ WLeq(c, w.nmemb)
                     /\ w.size = WZero => c = WZero
                     /\ changes(c) => CanTouch(f.path)}}

fwrite(w, stream) ==
    \E fake_fileno \in FakeFilenos :
        IF IsSinkWrite(fake_log, stream, files[stream].fileno, fake_fileno)
        THEN /\ Len(stdout) + Len(unflushed) + Len(Printed(w)) <= MaxStdout
             /\ LET flushed == fflush(stdout, fprintf(unflushed, w))
                IN  /\ stdout' = flushed.stdout
                    /\ unflushed' = flushed.unflushed
             /\ call' = [op |-> "fwrite", ptr |-> Buf(w), size |-> w.size,
                         nmemb |-> w.nmemb, stream |-> stream,
                         ret |-> SinkReturn(w.size, w.nmemb),
                         genuine |-> <<>>]
             /\ UNCHANGED <<files, fake_log, disk, glibc, threads>>
        ELSE \E o \in glibc_fwrite(w, stream) :
                /\ disk' = o.disk
                /\ call' = [op |-> "fwrite", ptr |-> Buf(w), size |-> w.size,
                            nmemb |-> w.nmemb, stream |-> stream,
                            ret |-> PassReturn(o.ret),
                            genuine |-> <<[fn |-> glibc.fwrite, ptr |-> Buf(w),
                                           size |-> w.size, nmemb |-> w.nmemb,
                                           stream |-> stream, ret |-> o.ret]>>]
                /\ UNCHANGED <<files, fake_log, stdout, unflushed, glibc, threads>>

call_fwrite == \E w \in WriteArgs, stream \in OpenAddrs : fwrite(w, stream)

Next == call_fopen64 \/ call_fclose \/ call_fwrite

Spec == Init /\ [][Next]_vars

----------------------------------------------------------------------------
(* truncate (lines 146-157), compiled in when HOOK_TRUNCATE is defined *)

\* the lengths the host asks for: 0, 1, 2^31, 2^32 and -1
Lengths == {WZero, WOne, TwoTo31, TwoTo32, MinusOne}

\* lines 32 and 155: the delegate's parameter is an int, so the call passes
\* the low 32 bits of length; the genuine truncate reads a 64-bit __off_t
\* whose upper half is what the build left in the register: the upper half
\* of length, zero, or the sign of the int
LengthPassed(length) == {length, ZeroExtend32(length), SignExtend32(length)}

\* the genuine truncate(path, length): 0 and the file has that length, or -1
glibc_truncate(path, length) ==
    {[ret |-> -1, disk |-> disk]}
    \cup
    {[ret |-> 0, disk |-> Touch(path)] :
        x \in {y \in {path} : /\ y # NULL_STR
                              /\ length[8] < 128
                              /\ disk[y].exists
                              /\ CanTouch(y)}}

truncate(pathname, length) ==
    IF Intercepts(pathname)
    THEN /\ call' = [op |-> "truncate", pathname |-> pathname,
                     length |-> length, ret |-> 0, genuine |-> <<>>]
         /\ UNCHANGED <<files, fake_log, stdout, unflushed, disk, glibc, threads>>
    ELSE \E passed \in LengthPassed(length) :
         \E o \in glibc_truncate(pathname, passed) :
            /\ disk' = o.disk
            /\ call' = [op |-> "truncate", pathname |-> pathname,
                        length |-> length, ret |-> o.ret,
                        genuine |-> <<[fn |-> glibc.truncate,
                                       path |-> pathname,
                                       length |-> passed, ret |-> o.ret]>>]
            /\ UNCHANGED <<files, fake_log, stdout, unflushed, glibc, threads>>

call_truncate ==
    \E pathname \in HostPaths, length \in Lengths : truncate(pathname, length)

InitTruncate == InitWith(TRUE)

NextTruncate == call_fopen64 \/ call_fclose \/ call_fwrite \/ call_truncate

\* the build with HOOK_TRUNCATE defined
SpecTruncate == InitTruncate /\ [][NextTruncate]_vars

----------------------------------------------------------------------------
(* Two FILE objects over one descriptor.  The test of line 162 reads the   *)
(* _fileno member of the stream, and the host can make a second FILE over  *)
(* the descriptor of one it has (fdopen(fileno(stream), mode)), which the  *)
(* library does not hook.  In this specification the host keeps its        *)
(* streams open.                                                           *)

\* the genuine fdopen(fd, mode) on the descriptor of stream: a new FILE with
\* the same _fileno, writing to the same file
glibc_fdopen(stream) ==
    {[files EXCEPT ![a] = [open |-> TRUE, fileno |-> files[stream].fileno,
                           path |-> files[stream].path]] :
        a \in FreeAddrs}

call_fdopen ==
    \E stream \in OpenAddrs :
        \E f \in glibc_fdopen(stream) :
            /\ files' = f
            /\ call' = [op |-> "fdopen", fd |-> files[stream].fileno]
            /\ UNCHANGED <<fake_log, stdout, unflushed, disk, glibc, threads>>

NextFdopen == call_fopen64 \/ call_fdopen \/ call_fwrite

SpecFdopen == Init /\ [][NextFdopen]_vars

----------------------------------------------------------------------------
(* The hooks called from two threads.  The library takes no lock, so the   *)
(* threads interleave between any two accesses of fake_log and between the *)
(* calls a hook makes; each action below is one such piece of a hook, run  *)
(* by thread t, named after the line it is on.  A read of fake_log that    *)
(* follows, in the same hook, a store to it or another read of it may be   *)
(* compiled as a load from memory or as a reuse of the register (fake_log  *)
(* is a plain global, and a concurrent store is a data race): both values  *)
(* are outcomes.  The host keeps its streams open in this specification.   *)

ThreadPaths == {LogPath, OtherPath}
ThreadWrites == {w \in WriteArgs : w.head = <<1>> /\ ~w.sparse /\ w.tail = <<0>>}

\* no thread has crashed the process
Running == \A u \in Threads : threads[u].pc # "SIGSEGV"

CanEnter(t) ==
    /\ Running
    /\ \/ threads[t].pc = "idle"
       \/ threads[t].pc = "returned" /\ threads[t].calls < MaxCalls

CallsMade(t) == IF threads[t].pc = "idle" THEN 0 ELSE threads[t].calls

At(t, pc) == Running /\ threads[t].pc = pc

\* lines 133-137: the call and the test of the path
fopen64_L137(t) ==
    /\ CanEnter(t)
    /\ \E pathname \in ThreadPaths :
           threads' = [threads EXCEPT ![t] =
               [pc |-> IF Intercepts(pathname) THEN "L138" ELSE "L143",
                op |-> "fopen64", pathname |-> pathname, flags |-> "w",
                calls |-> CallsMade(t) + 1]]
    /\ UNCHANGED <<files, fake_log, stdout, unflushed, disk, glibc, call>>

\* line 138, right-hand side: the genuine open of /dev/null
fopen64_L138_call(t) ==
    /\ At(t, "L138")
    /\ \E o \in glibc_fopen64(SinkPath(threads[t].pathname), threads[t].flags) :
           /\ files' = o.files
           /\ disk' = o.disk
           /\ threads' = [threads EXCEPT ![t] =
                  [pc |-> "L138_store", op |-> "fopen64",
                   pathname |-> threads[t].pathname, flags |-> threads[t].flags,
                   calls |-> threads[t].calls, obtained |-> o.ret]]
    /\ UNCHANGED <<fake_log, stdout, unflushed, glibc, call>>

\* line 138, the store to fake_log
fopen64_L138_store(t) ==
    /\ At(t, "L138_store")
    /\ fake_log' = Assigned(fake_log, threads[t].obtained)
    /\ threads' = [threads EXCEPT ![t].pc = "L139"]
    /\ UNCHANGED <<files, stdout, unflushed, disk, glibc, call>>

\* line 139: return fake_log
fopen64_L139(t) ==
    /\ At(t, "L139")
    /\ \E ret \in {threads[t].obtained, fake_log} :
           threads' = [threads EXCEPT ![t] =
               [pc |-> "returned", op |-> "fopen64",
                pathname |-> threads[t].pathname, calls |-> threads[t].calls,
                obtained |-> threads[t].obtained, ret |-> ret]]
    /\ UNCHANGED <<files, fake_log, stdout, unflushed, disk, glibc, call>>

\* line 143: the genuine open of the path itself
fopen64_L143(t) ==
    /\ At(t, "L143")
    /\ \E o \in glibc_fopen64(threads[t].pathname, threads[t].flags) :
           /\ files' = o.files
           /\ disk' = o.disk
           /\ threads' = [threads EXCEPT ![t] =
                  [pc |-> "returned", op |-> "fopen64",
                   pathname |-> threads[t].pathname, calls |-> threads[t].calls,
                   obtained |-> o.ret, ret |-> o.ret]]
    /\ UNCHANGED <<fake_log, stdout, unflushed, glibc, call>>

\* lines 159-162: the call and the first operand of &&, fake_log != 0
fwrite_L162(t) ==
    /\ CanEnter(t)
    /\ \E w \in ThreadWrites, stream \in OpenAddrs :
           threads' = [threads EXCEPT ![t] =
               [pc |-> IF fake_log # NULL THEN "L162_fileno" ELSE "L169",
                op |-> "fwrite", w |-> w, stream |-> stream,
                calls |-> CallsMade(t) + 1, seen |-> fake_log]]
    /\ UNCHANGED <<files, fake_log, stdout, unflushed, disk, glibc, call>>

\* line 162, the second operand: stream->_fileno == fake_log->_fileno reads
\* fake_log again; a null pointer there is dereferenced
fwrite_L162_fileno(t) ==
    /\ At(t, "L162_fileno")
    /\ \E fl \in {threads[t].seen, fake_log} :
           threads' = [threads EXCEPT ![t].pc =
               IF fl = NULL THEN "SIGSEGV"
               ELSE IF IsSinkWrite(fl, threads[t].stream,
                                   files[threads[t].stream].fileno,
                                   files[fl].fileno)
                    THEN "L164" ELSE "L169"]
    /\ UNCHANGED <<files, fake_log, stdout, unflushed, disk, glibc, call>>

\* line 164
fwrite_L164(t) ==
    /\ At(t, "L164")
    /\ Len(stdout) + Len(unflushed) + Len(Printed(threads[t].w)) <= MaxStdout
    /\ unflushed' = fprintf(unflushed, threads[t].w)
    /\ threads' = [threads EXCEPT ![t].pc = "L165"]
    /\ UNCHANGED <<files, fake_log, stdout, disk, glibc, call>>

\* lines 165-166: the flush and the return of size * nmemb
fwrite_L165(t) ==
    /\ At(t, "L165")
    /\ LET flushed == fflush(stdout, unflushed)
       IN  /\ stdout' = flushed.stdout
           /\ unflushed' = flushed.unflushed
    /\ threads' = [threads EXCEPT ![t] =
           [pc |-> "returned", op |-> "fwrite", calls |-> threads[t].calls,
            ret |-> SinkReturn(threads[t].w.size, threads[t].w.nmemb)]]
    /\ UNCHANGED <<files, fake_log, disk, glibc, call>>

\* line 169
fwrite_L169(t) ==
    /\ At(t, "L169")
    /\ \E o \in glibc_fwrite(threads[t].w, threads[t].stream) :
           /\ disk' = o.disk
           /\ threads' = [threads EXCEPT ![t] =
                  [pc |-> "returned", op |-> "fwrite",
                   calls |-> threads[t].calls, ret |-> PassReturn(o.ret)]]
    /\ UNCHANGED <<files, fake_log, stdout, unflushed, glibc, call>>

NextThreads ==
    \E t \in Threads :
        \/ fopen64_L137(t)
        \/ fopen64_L138_call(t)
        \/ fopen64_L138_store(t)
        \/ fopen64_L139(t)
        \/ fopen64_L143(t)
        \/ fwrite_L162(t)
        \/ fwrite_L162_fileno(t)
        \/ fwrite_L164(t)
        \/ fwrite_L165(t)
        \/ fwrite_L169(t)

SpecThreads == Init /\ [][NextThreads]_vars

----------------------------------------------------------------------------
(* The path matcher on its own: endswith applied to every pair of strings  *)
(* of up to MaxLen characters, and to absent arguments.                    *)

Alphabet == {"a", "A", "b"}
Strings == UNION {[1..k -> Alphabet] : k \in 0..MaxLen}

\* a caller holding a pair of arguments for endswith
InitEndswith ==
    /\ files = [a \in Addr |-> FreeChunk]
    /\ fake_log = NULL
    /\ stdout = <<>>
    /\ unflushed = <<>>
    /\ threads = [t \in Threads |-> Idle]
    /\ disk = [p \in DiskPaths |->
                  [exists |-> p \in {LogPath, OtherPath}, version |-> 0]]
    /\ glibc = init_preload(FALSE)
    /\ \E haystack \in Strings \cup {NULL_STR}, needle \in Strings \cup {NULL_STR} :
           call = [op |-> "endswith_args", haystack |-> haystack,
                   needle |-> needle]

call_endswith ==
    /\ call.op = "endswith_args"
    /\ call' = [op |-> "endswith", haystack |-> call.haystack,
                needle |-> call.needle,
                ret |-> endswith(call.haystack, call.needle)]
    /\ UNCHANGED <<files, fake_log, stdout, unflushed, disk, glibc, threads>>

NextEndswith == call_endswith

SpecEndswith == InitEndswith /\ [][NextEndswith]_vars

----------------------------------------------------------------------------
(* Claims about the path matcher (checked under SpecEndswith) *)

Present(s) == s # NULL_STR

\* the final Len(needle) characters of haystack equal needle one by one
EndsWith(haystack, needle) ==
    /\ Len(needle) <= Len(haystack)
    /\ \A i \in 1..Len(needle) :
           haystack[Len(haystack) - Len(needle) + i] = needle[i]

C8_NoMatchIffLonger ==
    (call.op = "endswith" /\ Present(call.haystack) /\ Present(call.needle))
        => ((call.ret = 0) <=> (Len(call.needle) > Len(call.haystack)))

\* C8 amended: with both arguments present, a needle longer than the
\* haystack gives no-match, and the result is no-match if and only if the
\* haystack does not end with the needle (the needle is longer, or one of
\* the final len(needle) characters differs).
C8_NoMatchIffNotSuffix ==
    (call.op = "endswith" /\ Present(call.haystack) /\ Present(call.needle))
        => LET h == call.haystack
               n == call.needle
           IN  /\ Len(n) > Len(h) => call.ret = 0
               /\ (call.ret = 0) <=>
                      \/ Len(n) > Len(h)
                      \/ \E i \in 1..Len(n) :
                             h[Len(h) - Len(n) + i] # n[i]

\* no-match for a needle that is not longer than the haystack
C8_Witness ==
    /\ call.op = "endswith"
    /\ call.haystack = <<"a", "b">>
    /\ call.needle = <<"a">>
    /\ call.ret = 0

----------------------------------------------------------------------------
(* Claims about the hooks (checked under Spec, C10 under SpecTruncate) *)

\* pathname ends in the configured suffix
Matched(pathname) == Present(pathname) /\ EndsWith(pathname, PATH_ENDING)

\* a is an open handle on the discard destination: one a matched open returned
IsSinkHandle(a) == a \in Addr /\ files[a].open /\ files[a].path = DevNull

\* the last call was an fwrite that was handed to the genuine fwrite, once,
\* with its four arguments
Delegated(c) ==
    /\ Len(c.genuine) = 1
    /\ c.genuine[1].fn = "fwrite"
    /\ c.genuine[1].ptr = c.ptr
    /\ c.genuine[1].size = c.size
    /\ c.genuine[1].nmemb = c.nmemb
    /\ c.genuine[1].stream = c.stream

\* C1: after a matched open returned H, an fwrite(ptr, size, nmemb, H)
\* appends to stdout exactly the size * nmemb bytes at ptr.  (Stated for H
\* the handle of the most recent matched open, still open.)
C1_SinkWriteVerbatim ==
    [][(call'.op = "fwrite" /\ call'.stream = fake_log /\ IsSinkHandle(fake_log))
          => (~call'.ptr.sparse /\ stdout' = stdout \o call'.ptr.head)]_vars

\* C2: an fwrite to a handle obtained by opening a path that does not end in
\* the suffix is handed to the genuine fwrite and emits nothing on stdout,
\* whatever opens, writes and closes came before.  (Stated for the states in
\* which fake_log is none or the address of a FILE that is open, where the
\* test of line 162 reads no freed memory.)
C2_OtherHandlePassThrough ==
    [][(/\ call'.op = "fwrite"
        /\ fake_log = NULL \/ files[fake_log].open
        /\ files[call'.stream].path # DevNull
        /\ ~Matched(files[call'.stream].path))
          => (Delegated(call') /\ stdout' = stdout)]_vars

\* C3: fopen64 on a path ending in PATH_ENDING makes one genuine open, of
\* /dev/null with the caller's flags, stores its result in fake_log and
\* returns it; neither that open nor any later fwrite changes the file
\* system at a path ending in PATH_ENDING.
C3_MatchedOpenOpensDevNull ==
    [][/\ (call'.op = "fopen64" /\ Matched(call'.pathname)) =>
              /\ call'.genuine = <<[fn |-> "fopen64", path |-> DevNull,
                                    flags |-> call'.flags, ret |-> call'.ret]>>
              /\ fake_log' = call'.ret
              /\ call'.ret # NULL => files'[call'.ret].path = DevNull
       /\ call'.op \in {"fopen64", "fwrite"} =>
              \A p \in DiskPaths : Matched(p) => disk'[p] = disk[p]]_vars

\* a write went to the handle a matched open with mode "w" returned
C3_Witness ==
    /\ call.op = "fwrite"
    /\ IsSinkHandle(call.stream)
    /\ call.ptr.head = <<1>>
    /\ disk[LogPath] = [exists |-> TRUE, version |-> 0]
    /\ ~disk[PATH_ENDING].exists

\* C4: fopen64 on a path the matcher does not match (no-match or absent)
\* calls the genuine open once with the original path and flags, returns its
\* result, failure included, and leaves fake_log as it was.
C4_UnmatchedOpenDelegates ==
    [][(call'.op = "fopen64" /\ ~Matched(call'.pathname)) =>
          /\ call'.genuine = <<[fn |-> "fopen64", path |-> call'.pathname,
                                flags |-> call'.flags, ret |-> call'.ret]>>
          /\ fake_log' = fake_log]_vars

\* an open of an absent path failed while fake_log held a sink handle
C4_Witness ==
    /\ call.op = "fopen64"
    /\ call.pathname = NULL_STR
    /\ call.ret = NULL
    /\ IsSinkHandle(fake_log)

\* C5: when fake_log is none, or the stream's descriptor differs from
\* fake_log's, fwrite calls the genuine fwrite with the four arguments and
\* returns exactly the count the genuine fwrite returned.
C5_PassThroughReturnsGenuineCount ==
    (/\ call.op = "fwrite"
     /\ \/ fake_log = NULL
        \/ /\ files[fake_log].open
           /\ files[call.stream].fileno # files[fake_log].fileno)
        => (Delegated(call) /\ call.ret = call.genuine[1].ret)

\* r is the product of a and b (for the sizes and counts of the model: an
\* element size of 1, or a product that is spelled out)
IsProduct(r, a, b) == IF a = WOne THEN r = b ELSE r = W(N(a) * N(b))

\* C6: when fake_log is set and the stream's descriptor equals fake_log's,
\* fwrite returns size * nmemb and does not call the genuine fwrite.
C6_SinkWriteReturnsProduct ==
    (/\ call.op = "fwrite"
     /\ fake_log # NULL
     /\ files[fake_log].open
     /\ files[call.stream].fileno = files[fake_log].fileno)
        => (call.genuine = <<>> /\ IsProduct(call.ret, call.size, call.nmemb))

\* a sink write of one element of two bytes returned 2
C6_Witness ==
    /\ call.op = "fwrite"
    /\ call.stream = fake_log
    /\ call.size = W(2)
    /\ call.nmemb = WOne
    /\ call.ret = W(2)

\* C9: with a first matched handle H1 still open, a matched open that returns
\* H2 leaves fake_log = H2 with a descriptor other than H1's; from then on,
\* while both are open, an fwrite to H2 prints the string at ptr on stdout
\* without a genuine write, and an fwrite to H1 is handed to the genuine
\* fwrite on /dev/null and adds nothing to stdout.
C9_SecondMatchedOpenWins ==
    [][/\ (call'.op = "fopen64" /\ Matched(call'.pathname) /\ call'.ret # NULL) =>
              \A h1 \in Addr : IsSinkHandle(h1) =>
                  /\ fake_log' = call'.ret
                  /\ call'.ret # h1
                  /\ files'[call'.ret].fileno # files'[h1].fileno
       /\ (/\ call'.op = "fwrite"
           /\ IsSinkHandle(fake_log)
           /\ IsSinkHandle(call'.stream)
           /\ \E h1 \in Addr \ {fake_log} : IsSinkHandle(h1)) =>
              IF call'.stream = fake_log
              THEN /\ call'.genuine = <<>>
                   /\ stdout' = stdout \o UpToNul(Memory(call'.ptr))
              ELSE /\ Delegated(call')
                   /\ stdout' = stdout]_vars

\* a payload written to H1 after H2 was opened went to the genuine fwrite
C9_Witness ==
    /\ call.op = "fwrite"
    /\ IsSinkHandle(fake_log)
    /\ IsSinkHandle(call.stream)
    /\ call.stream # fake_log
    /\ call.ptr.head = <<1>>
    /\ call.ret = WOne
    /\ stdout = <<>>

\* C10: with HOOK_TRUNCATE, truncate on a matched path makes no genuine call,
\* changes no file and returns 0; on any other path it calls the genuine
\* truncate once with the original path and the original length and returns
\* its result; fake_log is not changed either way.
C10_TruncateHook ==
    [][call'.op = "truncate" =>
          /\ fake_log' = fake_log
          /\ IF Matched(call'.pathname)
             THEN call'.genuine = <<>> /\ call'.ret = 0 /\ disk' = disk
             ELSE call'.genuine = <<[fn |-> "truncate",
                                     path |-> call'.pathname,
                                     length |-> call'.length,
                                     ret |-> call'.ret]>>]_vars

\* the payload is a C string: the size * nmemb bytes hold no zero byte and a
\* zero byte follows them
IsText(ptr) ==
    /\ ~ptr.sparse
    /\ \A i \in 1..Len(ptr.head) : ptr.head[i] # 0
    /\ ptr.tail = <<0>>

C12_FakeLogIsDiscardHandle ==
    (fake_log # NULL /\ files[fake_log].open) => files[fake_log].path = DevNull

\* C13: fake_log changes only in a matched fopen64: an fopen64 of any other
\* path, an fwrite, a truncate and an fclose leave it as it was, so after the
\* host closed the sink handle fake_log still is the address of the closed
\* FILE.
C13_OnlyMatchedOpenChangesFakeLog ==
    [][/\ (call'.op = "fopen64" /\ Matched(call'.pathname)) \/ fake_log' = fake_log
       /\ (call'.op = "fclose" /\ call'.stream = fake_log) =>
              (fake_log' = call'.stream /\ ~files'[fake_log'].open)]_vars

\* the host closed the sink handle after a truncate-enabled library had
\* redirected a write to it, and fake_log still names it
C13_Witness ==
    /\ call.op = "fclose"
    /\ call.stream = fake_log
    /\ ~files[fake_log].open
    /\ stdout # <<>>

\* C17: a matched fopen64 whose open of /dev/null fails returns that NULL
\* and leaves fake_log = NULL, whatever it held; while fake_log is NULL an
\* fwrite to a sink handle opened earlier is handed to the genuine fwrite
\* and adds nothing to stdout.
C17_FailedMatchedOpenClearsFakeLog ==
    [][/\ (/\ call'.op = "fopen64"
           /\ Matched(call'.pathname)
           /\ call'.genuine[1].ret = NULL) =>
              (call'.ret = NULL /\ fake_log' = NULL)
       /\ (/\ call'.op = "fwrite"
           /\ fake_log = NULL
           /\ IsSinkHandle(call'.stream)) =>
              (Delegated(call') /\ stdout' = stdout)]_vars

\* after a failed matched open, a write to the sink handle opened before it
\* went to the genuine fwrite
C17_Witness ==
    /\ call.op = "fwrite"
    /\ fake_log = NULL
    /\ IsSinkHandle(call.stream)
    /\ Len(call.genuine) = 1
    /\ call.ptr.head = <<1>>
    /\ stdout = <<>>

----------------------------------------------------------------------------
(* Claims about FILE objects that share a descriptor (under SpecFdopen) *)

\* C14: fwrite classifies the stream by its descriptor number alone: two
\* successive fwrites to streams with the same descriptor number (the same
\* FILE or two FILE objects) are both redirected or both handed on, and an
\* fwrite is redirected exactly when fake_log is set and every open FILE
\* with the stream's descriptor number has fake_log's descriptor number,
\* whether or not the stream is the FILE fake_log points at.
C14_ClassifiedByDescriptor ==
    [][call'.op = "fwrite" =>
          /\ (/\ call.op = "fwrite"
              /\ files[call.stream].fileno = files[call'.stream].fileno) =>
                 ((call.genuine = <<>>) <=> (call'.genuine = <<>>))
          /\ \A other \in OpenAddrs :
                 files[other].fileno = files[call'.stream].fileno =>
                     ((call'.genuine = <<>>) <=>
                          (/\ fake_log # NULL
                           /\ files[other].fileno = files[fake_log].fileno))]_vars

\* a write to a second FILE over the sink handle's descriptor was printed
C14_Witness ==
    /\ call.op = "fwrite"
    /\ fake_log # NULL
    /\ call.stream # fake_log
    /\ files[call.stream].fileno = files[fake_log].fileno
    /\ call.genuine = <<>>
    /\ stdout = <<1>>

----------------------------------------------------------------------------
(* Claims about the hooks called from two threads (under SpecThreads) *)

\* thread t has returned from an fopen64 of a path ending in PATH_ENDING
ReturnedMatchedOpen(t) ==
    /\ threads[t].pc = "returned"
    /\ threads[t].op = "fopen64"
    /\ Matched(threads[t].pathname)

\* C15: under every interleaving, a matched fopen64 returns the handle that
\* its own open of /dev/null gave it, and when both threads have returned
\* from a matched fopen64, fake_log is one of their two handles.
C15_ConcurrentMatchedOpens ==
    /\ \A t \in Threads :
           ReturnedMatchedOpen(t) => threads[t].ret = threads[t].obtained
    /\ (\A t \in Threads : ReturnedMatchedOpen(t)) =>
           fake_log \in {threads[t].obtained : t \in Threads}

\* C16: under every interleaving of an fwrite with a matched fopen64 on
\* another thread, an open of /dev/null that fails included, fwrite never
\* dereferences a fake_log that is NULL.
C16_NoNullDereference == \A t \in Threads : threads[t].pc # "SIGSEGV"

====
